---- MODULE Spec2Model ----
(***************************************************************************)
(* Model of src/main.py: the molecular system descriptor (dft_system), the *)
(* Gaussian counter (_num_gauss), the quadrant selection (_cross_selcet),  *)
(* the projection (_maximise_overlap) and the objective (fcn).             *)
(*                                                                         *)
(* Tensors are modelled as shaped matrices of exact rationals; the         *)
(* external collaborators (SCF solver, integral engine, basis loader) are  *)
(* modelled by the values they hand to the code of src/main.py, drawn      *)
(* from small sets.                                                        *)
(***************************************************************************)
EXTENDS Integers, Sequences, FiniteSets, TLC

VARIABLES
    \* _cross_selcet: its arguments and what each call returned
    crossmat, num_gauss, sel,
    \* _num_gauss: its arguments and its return value
    basis, restbasis, gauss_ret,
    \* _maximise_overlap / fcn: arguments, the global name `system`, results
    colap, coeffM, system, projection, evals, torch_empty_inverse,
    \* __main__: the module-level names atomstruc and system_ref, the position
    \* in the script, the default of dqc.loadbasis's requires_grad
    atomstruc, system_ref, pc, loadbasis_default,
    \* dft_system.fcn_dict: the dictionary handed to fcn
    func_dict

vars == <<crossmat, num_gauss, sel, basis, restbasis, gauss_ret,
          colap, coeffM, system, projection, evals, torch_empty_inverse,
          atomstruc, system_ref, pc, loadbasis_default, func_dict>>

selVars == <<crossmat, num_gauss, sel>>
gaussVars == <<basis, restbasis, gauss_ret>>
projVars == <<colap, coeffM, system, projection, evals, torch_empty_inverse>>
ctorVars == <<atomstruc, system_ref, pc, loadbasis_default>>

----------------------------------------------------------------------------
(* Bounds of the model *)

\* largest dimension of the matrix handed to _cross_selcet
MaxDim == 2
\* largest declared Gaussian count of one basis
MaxCount == 3
\* largest number of atoms of a basis handed to _num_gauss
MaxAtoms == 2
\* largest dimension of the overlap matrix handed to _maximise_overlap
MaxProjDim == 3
\* largest number of rows and of columns of a coefficient matrix
MaxRows == 2
MaxOrb == 2
\* largest number of basis functions of one basis in an evaluation of fcn
MaxBasis == 2
\* largest number of evaluations of fcn in one run
MaxEvals == 2

----------------------------------------------------------------------------
(* Exact rationals <<n, d>>, d > 0, in lowest terms: the numbers of a tensor *)

Abs(x) == IF x < 0 THEN -x ELSE x
Min(a, b) == IF a < b THEN a ELSE b
Max(a, b) == IF a > b THEN a ELSE b

RECURSIVE GCD(_, _)
GCD(a, b) == IF b = 0 THEN a ELSE GCD(b, a % b)

Rat(n, d) ==
    LET g == GCD(Abs(n), Abs(d))
        s == IF d < 0 THEN -1 ELSE 1
    IN  <<(s * n) \div g, (s * d) \div g>>

R(n) == <<n, 1>>
RAdd(x, y) == Rat(x[1] * y[2] + y[1] * x[2], x[2] * y[2])
RMul(x, y) == Rat(x[1] * y[1], x[2] * y[2])
RNeg(x) == <<-x[1], x[2]>>
RDiv(x, y) == Rat(x[1] * y[2], x[2] * y[1])

RECURSIVE RSum(_, _)
\* sum of f[1..n]
RSum(f, n) == IF n = 0 THEN R(0) ELSE RAdd(RSum(f, n - 1), f[n])

----------------------------------------------------------------------------
(* Tensors of two dimensions: a shape and the entries; a raised exception   *)
(* is a record with the field err                                          *)

\* the tuple of the first n values of f, evaluated once
Eager(f, n) == SubSeq(f, 1, n)

Err(what) == [err |-> what]
IsErr(x) == "err" \in DOMAIN x

\* Python's slice a:b on a dimension of length len: negative indices count
\* from the end, then both ends are clamped. Returns <<first - 1, last>>.
PyIndex(i, len) == IF i < 0 THEN Max(i + len, 0) ELSE Min(i, len)
PySlice(a, b, len) ==
    LET lo == PyIndex(a, len)
        hi == PyIndex(b, len)
    IN  <<lo, Max(lo, hi)>>

\* tensor[r0:r1, c0:c1]
Slice2(m, r0, r1, c0, c1) ==
    LET rs == PySlice(r0, r1, m.nr)
        cs == PySlice(c0, c1, m.nc)
        nr == rs[2] - rs[1]
        nc == cs[2] - cs[1]
    IN  [nr |-> nr, nc |-> nc,
         v |-> Eager([i \in 1..nr |->
                        Eager([j \in 1..nc |-> m.v[rs[1] + i][cs[1] + j]], nc)], nr)]

\* tensor[r0:, c0:c1] and tensor[r0:r1, c0:] (an omitted stop is the length)
SliceFromRow(m, r0, c0, c1) == Slice2(m, r0, m.nr, c0, c1)
SliceFromCol(m, r0, r1, c0) == Slice2(m, r0, r1, c0, m.nc)

----------------------------------------------------------------------------
(* _cross_selcet *)

Quadrants == {"S_11", "S_12", "S_21", "S_22"}

\* a slip in the S_12 branch: the columns stop at the count of the other basis
CrossSelectWrongColumns(cm, ng, direction) ==
    IF direction = "S_11" THEN Slice2(cm, 0, ng[1], 0, ng[1])
    ELSE IF direction = "S_12"
         THEN SliceFromRow(cm, ng[1], 0, ng[2])
    ELSE IF direction = "S_21"
         THEN SliceFromCol(cm, 0, ng[1], ng[1])
    ELSE IF direction = "S_22"
         THEN Slice2(cm, ng[1], cm.nr, ng[1], cm.nc)
    ELSE Err("no direction specified")

\* a slip in the last branch: an unknown name falls back to the S_11 block
CrossSelectDefaultSlice(cm, ng, direction) ==
    IF direction = "S_12"
         THEN SliceFromRow(cm, ng[1], 0, cm.nr - ng[2])
    ELSE IF direction = "S_21"
         THEN SliceFromCol(cm, 0, ng[1], ng[1])
    ELSE IF direction = "S_22"
         THEN Slice2(cm, ng[1], cm.nr, ng[1], cm.nc)
    ELSE Slice2(cm, 0, ng[1], 0, ng[1])

_cross_selcet(cm, ng, direction) ==
    IF direction = "S_11" THEN Slice2(cm, 0, ng[1], 0, ng[1])
    ELSE IF direction = "S_12"
         THEN SliceFromRow(cm, ng[1], 0, cm.nr - ng[2])
    ELSE IF direction = "S_21"
         THEN SliceFromCol(cm, 0, ng[1], ng[1])
    ELSE IF direction = "S_22"
         THEN Slice2(cm, ng[1], cm.nr, ng[1], cm.nc)
    ELSE Err("no direction specified")

----------------------------------------------------------------------------
(* torch.matmul, Tensor.T, torch.inverse, torch.trace on such tensors *)

matmul(a, b) ==
    IF a.nc # b.nr THEN Err("shape mismatch")
    ELSE [nr |-> a.nr, nc |-> b.nc,
          v |-> Eager([i \in 1..a.nr |-> Eager([j \in 1..b.nc |->
                   RSum([k \in 1..a.nc |-> RMul(a.v[i][k], b.v[k][j])], a.nc)],
                   b.nc)], a.nr)]

Transpose(a) ==
    [nr |-> a.nc, nc |-> a.nr,
     v |-> Eager([i \in 1..a.nc |-> Eager([j \in 1..a.nr |-> a.v[j][i]], a.nr)], a.nc)]

\* the matrix without row r and column c
Minor(a, r, c) ==
    [nr |-> a.nr - 1, nc |-> a.nc - 1,
     v |-> Eager([i \in 1..(a.nr - 1) |-> Eager([j \in 1..(a.nc - 1) |->
              a.v[IF i < r THEN i ELSE i + 1][IF j < c THEN j ELSE j + 1]],
              a.nc - 1)], a.nr - 1)]

Sign(k) == IF k % 2 = 0 THEN R(1) ELSE R(-1)

RECURSIVE Det(_)
Det(a) ==
    IF a.nr = 0 THEN R(1)
    ELSE RSum(Eager([j \in 1..a.nc |->
                 RMul(RMul(Sign(1 + j), a.v[1][j]), Det(Minor(a, 1, j)))], a.nc), a.nc)

\* torch.inverse: raises on a matrix that is not square or is singular; what
\* it does with a 0 x 0 matrix depends on the torch build
inverse(a) ==
    IF a.nr # a.nc THEN Err("shape mismatch")
    ELSE IF a.nr = 0 /\ torch_empty_inverse = "raises" THEN Err("empty")
    ELSE LET d == Det(a)
         IN  IF d = R(0) THEN Err("singular")
             ELSE [nr |-> a.nr, nc |-> a.nc,
                   v |-> Eager([i \in 1..a.nr |-> Eager([j \in 1..a.nc |->
                            RDiv(RMul(Sign(i + j), Det(Minor(a, j, i))), d)],
                            a.nc)], a.nr)]

\* torch.trace: the sum of the main diagonal of a two-dimensional tensor
trace(a) ==
    RSum(Eager([i \in 1..Min(a.nr, a.nc) |-> a.v[i][i]], Min(a.nr, a.nc)),
         Min(a.nr, a.nc))

----------------------------------------------------------------------------
(* Values the collaborators hand over *)

\* entries of an overlap matrix in the model
OverlapVals == {0, 1}

IntMat(d, c, f) ==
    [nr |-> d, nc |-> c,
     v |-> Eager([i \in 1..d |-> Eager([j \in 1..c |-> R(f[i][j])], c)], d)]

\* intor.overlap returns a symmetric matrix: S[i][j] = <i|j> = S[j][i]
SymMats(d) ==
    {IntMat(d, d, f) : f \in {g \in [1..d -> [1..d -> OverlapVals]] :
                                 \A i, j \in 1..d : g[i][j] = g[j][i]}}

\* the d x d matrix whose entries are 1, 2, ..., d*d row by row
Numbered(d) ==
    [nr |-> d, nc |-> d,
     v |-> Eager([i \in 1..d |-> Eager([j \in 1..d |-> R((i - 1) * d + j)], d)], d)]

Counts == 0..MaxCount

----------------------------------------------------------------------------
(* The variables a specification does not use keep these values *)

NotCalled == [called |-> FALSE]
\* the global name `system` before any assignment to it
Unbound == [bound |-> FALSE]
\* a dft_system built with scf = False has no attribute mol
NoMol == [built |-> FALSE]
NoMat == [nr |-> 0, nc |-> 0, v |-> <<>>]

IdleSelect == crossmat = NoMat /\ num_gauss = <<0, 0>> /\ sel = <<>>
IdleGauss == basis = <<>> /\ restbasis = <<>> /\ gauss_ret = NotCalled
IdleProj ==
    /\ colap = NoMat /\ coeffM = NoMat /\ system = Unbound
    /\ projection = NotCalled /\ evals = <<>> /\ torch_empty_inverse = "empty"
\* the module-level name atomstruc when the script's main block has not run
Undefined == [defined |-> FALSE]
IdleCtor ==
    /\ atomstruc = Undefined /\ system_ref = Unbound /\ pc = "idle"
    /\ loadbasis_default = FALSE
IdleDict == func_dict = NotCalled

----------------------------------------------------------------------------
(* SpecSelect: calls of _cross_selcet on one matrix and one pair of counts *)

Directions == Quadrants \cup {"S_99", "S_12_"}

SelectMats == UNION {SymMats(d) \cup {Numbered(d)} : d \in 0..MaxDim}

InitSelect ==
    /\ crossmat \in SelectMats
    /\ num_gauss \in Counts \X Counts
    /\ sel = [d \in Directions |-> NotCalled]
    /\ IdleGauss /\ IdleProj /\ IdleCtor /\ IdleDict

CrossSelect(direction) ==
    /\ sel[direction] = NotCalled
    /\ sel' = [sel EXCEPT ![direction] = _cross_selcet(crossmat, num_gauss, direction)]
    /\ UNCHANGED <<crossmat, num_gauss, gaussVars, projVars, ctorVars, func_dict>>

NextSelect == \E direction \in Directions : CrossSelect(direction)

SpecSelect == InitSelect /\ [][NextSelect]_vars

Returned(direction) == sel[direction] # NotCalled

\* how often the number x occurs among the entries of tensor m
RECURSIVE CountIn(_, _, _)
CountIn(m, x, k) ==
    IF k = 0 THEN 0
    ELSE CountIn(m, x, k - 1)
         + (IF m.v[((k - 1) \div m.nc) + 1][((k - 1) % m.nc) + 1] = x THEN 1 ELSE 0)
Occurrences(m, x) == CountIn(m, x, m.nr * m.nc)

EntriesOf(m) == {m.v[i][j] : i \in 1..m.nr, j \in 1..m.nc}

(* C1: when the counts add up to the dimension d of the square matrix, the
   block returned for "S_11" has shape (n_trial, n_trial), the block for
   "S_22" has shape (n_ref, n_ref), the row counts of the blocks for "S_12"
   and "S_21" add up to d, and every entry of the matrix occurs in the four
   blocks together exactly as often as in the matrix. *)
C1_QuadrantsPartition ==
    (sel # <<>> /\ num_gauss[1] + num_gauss[2] = crossmat.nr) =>
        /\ Returned("S_11") =>
              sel["S_11"].nr = num_gauss[1] /\ sel["S_11"].nc = num_gauss[1]
        /\ Returned("S_22") =>
              sel["S_22"].nr = num_gauss[2] /\ sel["S_22"].nc = num_gauss[2]
        /\ (Returned("S_12") /\ Returned("S_21")) =>
              sel["S_12"].nr + sel["S_21"].nr = crossmat.nr
        /\ (\A q \in Quadrants : Returned(q)) =>
              \A x \in EntriesOf(crossmat) :
                  Occurrences(sel["S_11"], x) + Occurrences(sel["S_12"], x)
                  + Occurrences(sel["S_21"], x) + Occurrences(sel["S_22"], x)
                  = Occurrences(crossmat, x)

C1_Witness ==
    /\ sel # <<>> /\ crossmat = Numbered(2) /\ num_gauss = <<1, 1>>
    /\ \A q \in Quadrants : Returned(q)
    /\ sel["S_12"].v[1][1] = R(3)

(* C5: a call with a direction other than the four quadrant names raises
   "no direction specified" and returns no slice of the matrix. *)
C5_UnknownDirectionRaises ==
    sel # <<>> =>
        \A d \in Directions \ Quadrants :
            Returned(d) => sel[d] = Err("no direction specified")

C5_Witness ==
    /\ sel # <<>> /\ crossmat.nr = 2 /\ num_gauss = <<1, 1>>
    /\ sel["S_99"] = Err("no direction specified")
    /\ Returned("S_11") /\ ~IsErr(sel["S_11"])

----------------------------------------------------------------------------
(* _num_gauss *)

RECURSIVE ShellSum(_, _)
\* the inner loop over the first k shells of one atom: n += 2 * el.angmom + 1
ShellSum(b, k) ==
    IF k = 0 THEN 0 ELSE ShellSum(b, k - 1) + (2 * b[k].angmom + 1)

RECURSIVE BasisSum(_, _)
\* the outer loop over the first k atoms of a basis
BasisSum(bs, k) ==
    IF k = 0 THEN 0 ELSE BasisSum(bs, k - 1) + ShellSum(bs[k], Len(bs[k]))

\* a slip: the two counts are returned in the other order
NumGaussSwapped(b, rb) == <<BasisSum(rb, Len(rb)), BasisSum(b, Len(b))>>

_num_gauss(b, rb) == <<BasisSum(b, Len(b)), BasisSum(rb, Len(rb))>>

\* the shells of one atom, as the packer reconstructs them: their angular momenta
Shells(ls) == [i \in 1..Len(ls) |-> [angmom |-> ls[i]]]
AtomShells ==
    {Shells(ls) : ls \in {<<>>, <<0>>, <<1>>, <<2>>, <<0, 1>>, <<0, 0, 1>>}}

Bases == UNION {[1..n -> AtomShells] : n \in 0..MaxAtoms}

InitGauss ==
    /\ basis \in Bases
    /\ restbasis \in Bases
    /\ gauss_ret = NotCalled
    /\ IdleSelect /\ IdleProj /\ IdleCtor /\ IdleDict

NumGauss ==
    /\ gauss_ret = NotCalled
    /\ gauss_ret' = [ret |-> _num_gauss(basis, restbasis)]
    /\ UNCHANGED <<basis, restbasis, selVars, projVars, ctorVars, func_dict>>

NextGauss == NumGauss

SpecGauss == InitGauss /\ [][NextGauss]_vars

\* the basis functions of a basis: one per atom, shell and magnetic number
\* m = -angmom .. angmom
Functions(bs) ==
    UNION {UNION {{<<a, k, m>> : m \in (-bs[a][k].angmom)..(bs[a][k].angmom)} :
                    k \in 1..Len(bs[a])} : a \in 1..Len(bs)}

(* C10: _num_gauss returns [n_trial, n_ref] in that order, each the number
   of basis functions of its own basis (2*angmom+1 per shell, summed over
   all shells of all atoms); the count of a concatenation of atom lists is
   the sum of the counts of the parts; shells [0, 1] count 4. *)
C10_NumGaussAdditive ==
    gauss_ret # NotCalled =>
        /\ gauss_ret.ret[1] = Cardinality(Functions(basis))
        /\ gauss_ret.ret[2] = Cardinality(Functions(restbasis))
        /\ \A k \in 0..Len(basis) :
              _num_gauss(SubSeq(basis, 1, k), restbasis)[1]
              + _num_gauss(SubSeq(basis, k + 1, Len(basis)), restbasis)[1]
              = gauss_ret.ret[1]
        /\ \A k \in 0..Len(restbasis) :
              _num_gauss(basis, SubSeq(restbasis, 1, k))[2]
              + _num_gauss(basis, SubSeq(restbasis, k + 1, Len(restbasis)))[2]
              = gauss_ret.ret[2]
        /\ basis = <<Shells(<<0, 1>>)>> => gauss_ret.ret[1] = 4
        /\ restbasis = <<Shells(<<0, 1>>)>> => gauss_ret.ret[2] = 4

C10_Witness ==
    /\ basis = <<Shells(<<0, 1>>)>>
    /\ restbasis = <<Shells(<<0, 0, 1>>), Shells(<<2>>)>>
    /\ gauss_ret = [ret |-> <<4, 10>>]

----------------------------------------------------------------------------
(* _maximise_overlap *)

\* a slip: the inverse of S_22 is left out
MaximiseOverlapNoInverse(coeff, cl, ng) ==
    LET S_12 == _cross_selcet(cl, ng, "S_12")
        S_21 == _cross_selcet(cl, ng, "S_21")
        s21_c == matmul(S_12, coeff)
    IN  IF IsErr(s21_c) THEN s21_c
        ELSE LET s12_s21c == matmul(S_21, s21_c)
             IN  IF IsErr(s12_s21c) THEN s12_s21c
                 ELSE matmul(Transpose(coeff), s12_s21c)

_maximise_overlap(coeff, cl, ng) ==
    LET S_12 == _cross_selcet(cl, ng, "S_12")
        S_21 == _cross_selcet(cl, ng, "S_21")
        S_22 == _cross_selcet(cl, ng, "S_22")
        s21_c == matmul(S_12, coeff)
    IN  IF IsErr(s21_c) THEN s21_c
        ELSE LET s22inv == inverse(S_22)
             IN  IF IsErr(s22inv) THEN s22inv
                 ELSE LET s22_s21c == matmul(s22inv, s21_c)
                      IN  IF IsErr(s22_s21c) THEN s22_s21c
                          ELSE LET s12_s22s21c == matmul(S_21, s22_s21c)
                               IN  IF IsErr(s12_s22s21c) THEN s12_s22s21c
                                   ELSE matmul(Transpose(coeff), s12_s22s21c)

CoeffVals == {0, 1}

Mats(r, c, vals) == {IntMat(r, c, f) : f \in [1..r -> [1..c -> vals]]}

InitProj ==
    /\ torch_empty_inverse \in {"raises", "empty"}
    /\ colap \in UNION {SymMats(d) : d \in 0..MaxProjDim}
    /\ coeffM \in UNION {Mats(r, k, CoeffVals) : r \in 1..MaxRows, k \in 1..MaxOrb}
    /\ num_gauss \in Counts \X Counts
    /\ projection = NotCalled
    /\ system = Unbound /\ evals = <<>>
    /\ crossmat = NoMat /\ sel = <<>>
    /\ IdleGauss /\ IdleCtor /\ IdleDict

MaximiseOverlap ==
    /\ projection = NotCalled
    /\ projection' = _maximise_overlap(coeffM, colap, num_gauss)
    /\ UNCHANGED <<colap, coeffM, system, evals, torch_empty_inverse,
                   selVars, gaussVars, ctorVars, func_dict>>

NextProj == MaximiseOverlap

SpecProj == InitProj /\ [][NextProj]_vars

\* the projection as the formula names its factors: the block returned for
\* "S_21" is multiplied onto C, the block returned for "S_12" comes last
FormulaProjection(coeff, cl, ng) ==
    LET S_12 == _cross_selcet(cl, ng, "S_12")
        S_21 == _cross_selcet(cl, ng, "S_21")
        S_22 == _cross_selcet(cl, ng, "S_22")
        s21_c == matmul(S_21, coeff)
    IN  IF IsErr(s21_c) THEN s21_c
        ELSE LET s22inv == inverse(S_22)
             IN  IF IsErr(s22inv) THEN s22inv
                 ELSE LET s22_s21c == matmul(s22inv, s21_c)
                      IN  IF IsErr(s22_s21c) THEN s22_s21c
                          ELSE LET s12_s22s21c == matmul(S_12, s22_s21c)
                               IN  IF IsErr(s12_s22s21c) THEN s12_s22s21c
                                   ELSE matmul(Transpose(coeff), s12_s22s21c)

(* C2: _maximise_overlap computes P = C^T * S12 * inverse(S22) * S21 * C with
   the blocks _cross_selcet returns for "S_12", "S_21" and "S_22": whenever
   the code or the formula yields a matrix, both yield the same one. *)
C2_ProjectionFormula ==
    projection # NotCalled =>
        LET formula == FormulaProjection(coeffM, colap, num_gauss)
        IN  (~IsErr(projection) \/ ~IsErr(formula)) => projection = formula

(* C6: with declared counts that do not add up to the dimension of the
   overlap matrix, the projection evaluation raises and returns no matrix. *)
C6_MismatchRaises ==
    (projection # NotCalled /\ num_gauss[1] + num_gauss[2] # colap.nr) =>
        IsErr(projection)

----------------------------------------------------------------------------
(* fcn *)

Nan == [nan |-> TRUE]

\* dft_system._get_occ: the occupation vector scf.RHF(self.mol) finds
_get_occ(obj) ==
    IF obj.mol = NoMol THEN Err("AttributeError") ELSE [vec |-> obj.mol.mo_occ]

\* occ[occ > 0]
Positive(occ) == SelectSeq(occ, LAMBDA x : x > 0)

RECURSIVE SeqSum(_, _)
SeqSum(q, k) == IF k = 0 THEN 0 ELSE SeqSum(q, k - 1) + q[k]

\* projection * vector, with torch's broadcasting of the vector over the rows
OccMul(p, w) ==
    IF p.nc = Len(w) \/ p.nc = 1 \/ Len(w) = 1
    THEN LET c == IF p.nc = 1 THEN Len(w) ELSE p.nc
         IN  [nr |-> p.nr, nc |-> c,
              v |-> Eager([i \in 1..p.nr |-> Eager([j \in 1..c |->
                       RMul(p.v[i][IF p.nc = 1 THEN 1 ELSE j],
                            R(w[IF Len(w) = 1 THEN 1 ELSE j]))], c)], p.nr)]
    ELSE Err("shape mismatch")

\* fcn(bparams, bpacker, bparams_ref, bpacker_ref, atomstruc_dqc, coeffM):
\* b and rb are the bases the packers reconstruct from the parameters, cl is
\* the matrix _crossoverlap returns for them and atomstruc_dqc
fcn(b, rb, cl, coeff) ==
    LET ng == _num_gauss(b, rb)
        proj == _maximise_overlap(coeff, cl, ng)
    IN  IF IsErr(proj) THEN proj
        ELSE IF system = Unbound THEN Err("NameError")
        ELSE LET occ == _get_occ(system)
             IN  IF IsErr(occ) THEN occ
                 ELSE LET weighted == OccMul(proj, Positive(occ.vec))
                          total == SeqSum(occ.vec, Len(occ.vec))
                      IN  IF IsErr(weighted) THEN weighted
                          ELSE IF total = 0 THEN Nan
                          ELSE [val |-> RNeg(RDiv(trace(weighted), R(total)))]

\* scf.RHF on a closed-shell molecule: a doubly occupied orbitals, b empty ones
OccVector(a, b) == [i \in 1..(a + b) |-> IF i <= a THEN 2 ELSE 0]

\* an evaluation: fcn(**func_dict), as the optimizer repeats it
Fcn ==
    /\ Len(evals) < MaxEvals
    /\ evals' = Append(evals, fcn(basis, restbasis, colap, coeffM))
    /\ UNCHANGED <<basis, restbasis, gauss_ret, colap, coeffM, system, projection,
                   torch_empty_inverse, selVars, ctorVars, func_dict>>

----------------------------------------------------------------------------
(* SpecIdentical: the trial basis is the reference basis *)

\* the self-overlaps <i|i> and the overlaps <i|j> of the matrix A, and the
\* entries of the coefficient columns
IdenticalDiagonalVals == {1, 2}
IdenticalOverlapVals == {-1, 0, 1}
IdenticalCoeffVals == {-1, 0, 1}

Vectors(n) == [1..n -> IdenticalCoeffVals]

\* x^T A y for integer vectors x, y and a matrix A with integer entries
RECURSIVE Bilinear(_, _, _, _)
Bilinear(x, a, y, k) ==
    IF k = 0 THEN 0
    ELSE Bilinear(x, a, y, k - 1)
         + x[((k - 1) \div a.nc) + 1]
           * a.v[((k - 1) \div a.nc) + 1][((k - 1) % a.nc) + 1][1]
           * y[((k - 1) % a.nc) + 1]

RECURSIVE OrthoCols(_, _)
\* the k-tuples of columns c with c_i^T A c_j = 1 if i = j, else 0: the
\* occupied orbitals an SCF solve returns are orthonormal in the overlap metric
OrthoCols(a, k) ==
    IF k = 0 THEN {<<>>}
    ELSE UNION {{Append(cs, x) :
                    x \in {y \in Vectors(a.nr) :
                             /\ Bilinear(y, a, y, a.nr * a.nc) = 1
                             /\ \A i \in 1..(k - 1) :
                                   /\ Bilinear(cs[i], a, y, a.nr * a.nc) = 0
                                   /\ Bilinear(y, a, cs[i], a.nr * a.nc) = 0}} :
                cs \in OrthoCols(a, k - 1)}

FromCols(n, cs) ==
    [nr |-> n, nc |-> Len(cs),
     v |-> Eager([i \in 1..n |-> Eager([j \in 1..Len(cs) |-> R(cs[j][i])], Len(cs))], n)]

\* the overlap matrix of a basis with itself twice: all four quadrants are A
Doubled(a) ==
    [nr |-> 2 * a.nr, nc |-> 2 * a.nc,
     v |-> Eager([i \in 1..(2 * a.nr) |-> Eager([j \in 1..(2 * a.nc) |->
              a.v[((i - 1) % a.nr) + 1][((j - 1) % a.nc) + 1]], 2 * a.nc)], 2 * a.nr)]

SymMatsOver(d, diag, vals) ==
    LET upper == {ij \in (1..d) \X (1..d) : ij[1] < ij[2]}
    IN  {[nr |-> d, nc |-> d,
          v |-> Eager([i \in 1..d |-> Eager([j \in 1..d |->
                   R(IF i = j THEN dg[i]
                     ELSE IF i < j THEN off[<<i, j>>] ELSE off[<<j, i>>])], d)], d)] :
            dg \in [1..d -> diag], off \in [upper -> vals]}

\* an overlap matrix of linearly independent functions is positive definite:
\* its leading principal minors are positive (so it is invertible)
PositiveDefinite(a) ==
    \A k \in 1..a.nr : Det(Slice2(a, 0, k, 0, k))[1] > 0

InitIdentical ==
    /\ basis \in {b \in Bases : /\ BasisSum(b, Len(b)) \in 1..MaxBasis
                                 /\ \A i \in 1..Len(b) : b[i] # <<>>}
    /\ restbasis = basis
    /\ \E a \in SymMatsOver(BasisSum(basis, Len(basis)),
                              IdenticalDiagonalVals, IdenticalOverlapVals) :
          /\ PositiveDefinite(a)
          /\ colap = Doubled(a)
          /\ \E k \in 1..a.nr :
                /\ coeffM \in {FromCols(a.nr, cs) : cs \in OrthoCols(a, k)}
                /\ system = [mol |-> [mo_occ |-> OccVector(k, a.nr - k)]]
    \* S_22 = A is never 0 x 0 here, so one build of torch stands for both
    /\ torch_empty_inverse = "raises"
    /\ evals = <<>> /\ projection = NotCalled /\ gauss_ret = NotCalled
    /\ IdleSelect /\ IdleCtor /\ IdleDict

NextIdentical == Fcn

SpecIdentical == InitIdentical /\ [][NextIdentical]_vars

(* C3: with the trial basis identical to the reference basis (all four
   quadrants the same invertible A, and C^T A C the identity), every
   evaluation of fcn returns -1. *)
C3_IdenticalBasisGivesMinusOne ==
    \A i \in 1..Len(evals) : evals[i] = [val |-> R(-1)]

C3_Witness ==
    /\ Len(evals) >= 1 /\ evals[1] = [val |-> R(-1)]
    /\ coeffM.nr = 2 /\ coeffM.nc = 2
    /\ colap.v[1][2] # R(0)
    /\ system.mol.mo_occ = <<2, 2>>

----------------------------------------------------------------------------
(* SpecFcn: evaluations of fcn with the same arguments, between which the
   module-level name `system` is assigned *)

\* the objects `system` can name: built with scf = False (no mol), or with
\* the occupations the SCF solve of their molecule finds
SystemObjects ==
    {[mol |-> NoMol]} \cup
    {[mol |-> [mo_occ |-> OccVector(ab[1], ab[2])]] :
        ab \in {x \in (0..MaxRows) \X (0..MaxRows) : x[1] + x[2] \in 1..MaxRows}}

\* overlap matrices of normalised basis functions: <i|i> = 1
UnitDiagonal(ms) == {m \in ms : \A i \in 1..m.nr : m.v[i][i] = R(1)}

InitFcn ==
    /\ torch_empty_inverse \in {"raises", "empty"}
    /\ basis \in {b \in Bases : /\ BasisSum(b, Len(b)) \in 1..MaxBasis
                                 /\ \A i \in 1..Len(b) : b[i] # <<>>}
    /\ restbasis \in {b \in Bases : /\ BasisSum(b, Len(b)) \in 1..MaxBasis
                                     /\ \A i \in 1..Len(b) : b[i] # <<>>}
    /\ BasisSum(basis, Len(basis)) + BasisSum(restbasis, Len(restbasis)) <= MaxProjDim
    /\ colap \in UnitDiagonal(SymMats(BasisSum(basis, Len(basis))
                                      + BasisSum(restbasis, Len(restbasis))))
    /\ coeffM \in UNION {Mats(BasisSum(basis, Len(basis)), k, CoeffVals) :
                            k \in 1..BasisSum(basis, Len(basis))}
    /\ system = [mol |-> [mo_occ |-> OccVector(coeffM.nc, coeffM.nr - coeffM.nc)]]
    /\ evals = <<>> /\ projection = NotCalled /\ gauss_ret = NotCalled
    /\ IdleSelect /\ IdleCtor /\ IdleDict

\* a module-level assignment system = dft_system(...)
Bind(obj) ==
    /\ system # obj
    /\ system' = obj
    /\ UNCHANGED <<basis, restbasis, gauss_ret, colap, coeffM, projection, evals,
                   torch_empty_inverse, selVars, ctorVars, func_dict>>

NextFcn == Fcn \/ \E obj \in SystemObjects : Bind(obj)

SpecFcn == InitFcn /\ [][NextFcn]_vars

(* C9: the value of an evaluation of fcn is determined by its arguments:
   evaluations with equal arguments return equal values, whatever the global
   name `system` is bound to. *)
C9_ValueDeterminedByArguments ==
    \A i, j \in 1..Len(evals) : evals[i] = evals[j]

----------------------------------------------------------------------------
(* dft_system *)

\* range(1, 100) in _generateElementdict
ElementRangeEnd == 100

\* str(peri.Element.from_Z(z)) for z = 1, 2, ...
Symbols ==
    <<"H", "He", "Li", "Be", "B", "C", "N", "O", "F", "Ne",
      "Na", "Mg", "Al", "Si", "P", "S", "Cl", "Ar", "K", "Ca",
      "Sc", "Ti", "V", "Cr", "Mn", "Fe", "Co", "Ni", "Cu", "Zn",
      "Ga", "Ge", "As", "Se", "Br", "Kr", "Rb", "Sr", "Y", "Zr",
      "Nb", "Mo", "Tc", "Ru", "Rh", "Pd", "Ag", "Cd", "In", "Sn",
      "Sb", "Te", "I", "Xe", "Cs", "Ba", "La", "Ce", "Pr", "Nd",
      "Pm", "Sm", "Eu", "Gd", "Tb", "Dy", "Ho", "Er", "Tm", "Yb",
      "Lu", "Hf", "Ta", "W", "Re", "Os", "Ir", "Pt", "Au", "Hg",
      "Tl", "Pb", "Bi", "Po", "At", "Rn", "Fr", "Ra", "Ac", "Th",
      "Pa", "U", "Np", "Pu", "Am", "Cm", "Bk", "Cf", "Es", "Fm">>

\* the dictionary holds number -> symbol and symbol -> number for 1..99
_generateElementdict ==
    [symbol |-> [z \in 1..(ElementRangeEnd - 1) |-> Symbols[z]],
     number |-> [sym \in {Symbols[z] : z \in 1..(ElementRangeEnd - 1)} |->
                   CHOOSE z \in 1..(ElementRangeEnd - 1) : Symbols[z] = sym]]

\* an element of an atom entry is a str or a number
IsStr(e) == "str" \in DOMAIN e

\* _get_element_arr reads the module-level name atomstruc for the length
_get_element_arr(atomstuc, element_dict) ==
    IF atomstruc = Undefined THEN Err("NameError")
    ELSE IF Len(atomstruc.val) > Len(atomstuc) THEN Err("IndexError")
    ELSE LET elements_arr == [i \in 1..Len(atomstruc.val) |-> atomstuc[i][1]]
         IN  IF \E i \in 1..Len(elements_arr) :
                    /\ IsStr(elements_arr[i])
                    /\ elements_arr[i].str \notin DOMAIN element_dict.number
             THEN Err("KeyError")
             ELSE [arr |-> [i \in 1..Len(elements_arr) |->
                              IF IsStr(elements_arr[i])
                              THEN element_dict.number[elements_arr[i].str]
                              ELSE elements_arr[i].int]]

\* str(self.atomstuc) with its brackets, quotes and commas replaced: a text
\* that is not interpreted in this model
_arr_int_conv(atomstuc) == [text_of |-> atomstuc]

\* _create_scf_Mol: the Mole that pyscf builds from the atom list and the basis
_create_scf_Mol(atomstuc, b) == [atom |-> atomstuc, basis |-> b]

\* dft_system(basis, atomstruc, scf); built says whether pyscf's mol.build()
\* succeeds. A failed construction is the exception, with the atom list it
\* was given and whether the SCF molecule had been started. The field
\* element_dict is the same table in every object and is not repeated here.
dft_system(b, atomstuc, scf, built) ==
    LET element_dict == _generateElementdict
        elements == _get_element_arr(atomstuc, element_dict)
    IN  IF IsErr(elements)
        THEN [err |-> elements.err, atomstuc |-> atomstuc, mol |-> NoMol]
        ELSE IF scf /\ ~built
        THEN [err |-> "pyscf", atomstuc |-> atomstuc,
              mol |-> _create_scf_Mol(atomstuc, b)]
        ELSE [basis |-> b, atomstuc |-> atomstuc,
              atomstuc_dqc |-> _arr_int_conv(atomstuc),
              elements |-> elements.arr,
              mol |-> IF scf THEN _create_scf_Mol(atomstuc, b) ELSE NoMol]

\* the elements the basis files of the model hold data for
BasisData == {1, 3}

\* dqc.loadbasis(f"{z}:{name}", requires_grad = flag)
loadbasis(z, name, flag) ==
    IF z \in BasisData THEN [cmd |-> <<z, name>>, requires_grad |-> flag]
    ELSE Err("no basis data")

\* xt.Packer(basis).get_param_tensor(): the concatenated parameters, which
\* require a gradient when the packed tensors do
get_param_tensor(loaded) ==
    [requires_grad |-> \E i \in 1..Len(loaded) : loaded[i].requires_grad]

\* dft_system.dqc(ref)
dqc(obj, ref) ==
    IF ~IsStr(obj.basis) /\ Len(obj.basis.list) < Len(obj.elements)
    THEN Err("IndexError")
    ELSE LET loaded == [i \in 1..Len(obj.elements) |->
                          loadbasis(obj.elements[i],
                                    IF IsStr(obj.basis) THEN obj.basis.str
                                    ELSE obj.basis.list[i],
                                    IF ref THEN loadbasis_default ELSE FALSE)]
         IN  IF \E i \in 1..Len(loaded) : IsErr(loaded[i])
             THEN Err("no basis data")
             ELSE IF ref
             THEN [bparams_ref |-> get_param_tensor(loaded),
                   bpacker_ref |-> [packed |-> loaded]]
             ELSE [bparams |-> get_param_tensor(loaded),
                   bpacker |-> [packed |-> loaded]]

\* dft_system._coeff_mat_scf: the occupied columns of the SCF solution of
\* self.mol; not interpreted in this model
_coeff_mat_scf(obj) ==
    IF obj.mol = NoMol THEN Err("AttributeError") ELSE [mo_coeff_of |-> obj.mol]

\* dft_system.fcn_dict(ref_system)
fcn_dict(obj, ref_system) ==
    LET to_opt == dqc(obj, FALSE)
    IN  IF IsErr(to_opt) THEN to_opt
        ELSE LET ref == dqc(ref_system, TRUE)
             IN  IF IsErr(ref) THEN ref
                 ELSE LET coeff == _coeff_mat_scf(obj)
                      IN  IF IsErr(coeff) THEN coeff
                          ELSE [bparams |-> to_opt.bparams,
                                bpacker |-> to_opt.bpacker,
                                bparams_ref |-> ref.bparams_ref,
                                bpacker_ref |-> ref.bpacker_ref,
                                atomstruc_dqc |-> obj.atomstuc_dqc,
                                coeffM |-> coeff]

----------------------------------------------------------------------------
(* SpecSystem: the script's main block, with the atom lists, the bases and
   the scf flags drawn from small sets *)

ElementIds == {[str |-> "Li"], [str |-> "Fm"], [int |-> 3], [int |-> 100]}

Position == <<0, 0, 0>>

\* a molecule has at least one atom
AtomLists == UNION {[1..n -> {<<e, Position>> : e \in ElementIds}] : n \in 1..MaxAtoms}

BasisArgs == {[str |-> "3-21G"], [list |-> <<"3-21G", "3-21G">>]}

\* mol.build() with spin 0 succeeds for known elements and an even number of
\* electrons, and needs the basis to be a string (line 129)
InTable(e) ==
    IF IsStr(e) THEN e.str \in DOMAIN _generateElementdict.number
    ELSE e.int \in DOMAIN _generateElementdict.symbol

AtomicNumber(e) == IF IsStr(e) THEN _generateElementdict.number[e.str] ELSE e.int

RECURSIVE Electrons(_, _)
Electrons(atomstuc, k) ==
    IF k = 0 THEN 0 ELSE Electrons(atomstuc, k - 1) + AtomicNumber(atomstuc[k][1])

PyscfBuilds(b, atomstuc) ==
    /\ IsStr(b)
    /\ Len(atomstuc) > 0
    /\ \A i \in 1..Len(atomstuc) : InTable(atomstuc[i][1])
    /\ Electrons(atomstuc, Len(atomstuc)) % 2 = 0

InitSystem ==
    /\ atomstruc \in {Undefined} \cup {[val |-> l] : l \in AtomLists}
    /\ loadbasis_default \in BOOLEAN
    /\ system = Unbound /\ system_ref = Unbound
    /\ pc = "system" /\ func_dict = NotCalled
    /\ colap = NoMat /\ coeffM = NoMat /\ projection = NotCalled /\ evals = <<>>
    /\ torch_empty_inverse = "empty"
    /\ IdleSelect /\ IdleGauss

\* system = dft_system(basis, atomstruc), line 337
ConstructSystem(b, l, scf) ==
    /\ pc = "system"
    /\ system' = dft_system(b, l, scf, PyscfBuilds(b, l))
    /\ pc' = IF IsErr(system') THEN "raised" ELSE "system_ref"
    /\ UNCHANGED <<atomstruc, system_ref, loadbasis_default, func_dict, colap, coeffM,
                   projection, evals, torch_empty_inverse, selVars, gaussVars>>

\* system_ref = dft_system(basis_ref, atomstruc, scf = False), line 343
ConstructRef(b, l, scf) ==
    /\ pc = "system_ref"
    /\ system_ref' = dft_system(b, l, scf, PyscfBuilds(b, l))
    /\ pc' = IF IsErr(system_ref') THEN "raised" ELSE "func_dict"
    /\ UNCHANGED <<atomstruc, system, loadbasis_default, func_dict, colap, coeffM,
                   projection, evals, torch_empty_inverse, selVars, gaussVars>>

\* func_dict = system.fcn_dict(system_ref), line 347
FcnDict ==
    /\ pc = "func_dict"
    /\ func_dict' = fcn_dict(system, system_ref)
    /\ pc' = IF IsErr(func_dict') THEN "raised" ELSE "fcn"
    /\ UNCHANGED <<atomstruc, system, system_ref, loadbasis_default, colap, coeffM,
                   projection, evals, torch_empty_inverse, selVars, gaussVars>>

NextSystem ==
    \/ \E b \in BasisArgs, l \in AtomLists, scf \in BOOLEAN : ConstructSystem(b, l, scf)
    \/ \E b \in BasisArgs, l \in AtomLists, scf \in BOOLEAN : ConstructRef(b, l, scf)
    \/ FcnDict

SpecSystem == InitSystem /\ [][NextSystem]_vars

Attempted == {x \in {system, system_ref} : x # Unbound}
Constructed == {x \in Attempted : ~IsErr(x)}

(* C4: in the dictionary fcn_dict assembles, the parameters of the basis
   under optimization (bparams) are gradient-tracked and those of the
   reference basis (bparams_ref) are not. *)
C4_GradientRoles ==
    (func_dict # NotCalled /\ ~IsErr(func_dict)
       /\ func_dict.bpacker.packed # <<>> /\ func_dict.bpacker_ref.packed # <<>>) =>
        /\ func_dict.bparams.requires_grad
        /\ ~func_dict.bparams_ref.requires_grad

(* C7: constructing a dft_system from an atom list with an element outside
   the lookup table (an unknown symbol, or a number outside 1..99) fails,
   and fails before any SCF molecule is built. *)
C7_UnknownElementFailsFast ==
    \A x \in Attempted :
        (\E i \in 1..Len(x.atomstuc) : ~InTable(x.atomstuc[i][1])) =>
            IsErr(x) /\ x.mol = NoMol

(* C8: the element array of a constructed dft_system has one entry per atom
   of its atom list, entry i being the atomic number of atom i, whatever
   the module-level atom list is. *)
C8_ElementArrayMatchesAtoms ==
    \A x \in Constructed :
        /\ Len(x.elements) = Len(x.atomstuc)
        /\ \A i \in 1..Len(x.elements) :
              InTable(x.atomstuc[i][1]) =>
                  x.elements[i] = AtomicNumber(x.atomstuc[i][1])

====
